---- MODULE Spec2Model ----
(***************************************************************************)
(* Model of src/server.js: the clients table and the handler of            *)
(* PUT /api/v1/clients/:id (the first handler registered for the route,    *)
(* lines 107-161; Express never reaches the second one, lines 177-239,     *)
(* because the first always responds and never calls next()).              *)
(*                                                                         *)
(* The table is a sequence of rows in storage order.  A handler invocation *)
(* is a process whose position is the await it is suspended at; one action *)
(* completes the awaited database call and runs the synchronous code up to *)
(* the next await.                                                         *)
(***************************************************************************)
EXTENDS Integers, Sequences, FiniteSets, TLC

\* ------------------------------------------------------------------ bounds
\* Number of rows of the clients table in the one-call-at-a-time specification.
NumClients == 4
\* Number of rows of the clients table in the concurrent specification.
ConcClients == 2
\* Number of rows of the clients table in the disjoint-lanes specification.
DisjClients == 3
\* Number of handler invocations that can be in flight together.
MaxProcs == 2

Procs == 1..MaxProcs

\* ------------------------------------------------------------------ values
\* The three lanes named at server.js:87 and :173.
Lanes == {"backlog", "in-progress", "complete"}
\* A status string that is none of the three lanes.
BadStatus == "archived"

\* An optional value (a JS value that may be undefined / NaN): <<>> or <<v>>.
None == <<>>
Some(v) == <<v>>

\* JS truthiness of an optional string and of an optional number.
TruthyStr(o) == o # None /\ o[1] # ""
TruthyNum(o) == o # None /\ o[1] # 0

\* ------------------------------------------------------------------ JS arrays
\* Splice with the one-based rank used as the zero-based index.
Splice_OffByOne(s, idx0, item) ==
  LET k == IF idx0 + 1 > Len(s) THEN Len(s) ELSE idx0 + 1
  IN  SubSeq(s, 1, k) \o <<item>> \o SubSeq(s, k + 1, Len(s))

\* Array.prototype.splice(idx0, 0, item) with a zero-based index.
Splice(s, idx0, item) ==
  LET k == IF idx0 < 0 THEN 0 ELSE IF idx0 > Len(s) THEN Len(s) ELSE idx0
  IN  SubSeq(s, 1, k) \o <<item>> \o SubSeq(s, k + 1, Len(s))

\* ------------------------------------------------------------------ SQL
\* SELECT * FROM clients WHERE id = ? LIMIT 1
GetById(d, id) ==
  LET hit == SelectSeq(d, LAMBDA r : r.id = id)
  IN  IF Len(hit) = 0 THEN None ELSE Some(hit[1])

\* The status update without its WHERE clause.
UpdateStatus_NoWhere(d, s, id) ==
  [k \in DOMAIN d |-> [d[k] EXCEPT !.status = s]]

\* UPDATE clients SET status = ? WHERE id = ?
UpdateStatus(d, s, id) ==
  [k \in DOMAIN d |-> IF d[k].id = id THEN [d[k] EXCEPT !.status = s] ELSE d[k]]

\* UPDATE clients SET priority = ? WHERE id = ?
UpdatePriority(d, pr, id) ==
  [k \in DOMAIN d |-> IF d[k].id = id THEN [d[k] EXCEPT !.priority = pr] ELSE d[k]]

\* Text order of the status strings (SQLite's BINARY collation).
StatusOrd(s) ==
  CASE s = "archived" -> 1
    [] s = "backlog" -> 2
    [] s = "complete" -> 3
    [] s = "in-progress" -> 4

\* Every ordering of the rows with indices in S that is ascending in key
\* (key[k] is the sort key of row k): rows that tie may come in any order.
RECURSIVE OrderedSeqs(_, _, _)
OrderedSeqs(d, S, key) ==
  IF S = {} THEN {<<>>}
  ELSE UNION { { <<d[m]>> \o rest : rest \in OrderedSeqs(d, S \ {m}, key) } :
               m \in { x \in S : \A y \in S : key[x] <= key[y] } }

\* SELECT * FROM clients WHERE status = ? ORDER BY priority
SelectByStatusOrdered(d, s) ==
  OrderedSeqs(d, { k \in DOMAIN d : d[k].status = s },
              [k \in DOMAIN d |-> d[k].priority])

\* SELECT * FROM clients ORDER BY status, priority (priorities never exceed
\* the number of rows, so the pair is ordered as one number).
SelectAllOrdered(d) ==
  OrderedSeqs(d, DOMAIN d,
              [k \in DOMAIN d |-> StatusOrd(d[k].status) * (Len(d) + 1) + d[k].priority])

\* ------------------------------------------------------------------ responses
NoResp == [code |-> 0, message |-> "", long_message |-> "", bound |-> 0, body |-> <<>>]

ErrResp(c, m, lm, b) ==
  [code |-> c, message |-> m, long_message |-> lm, bound |-> b, body |-> <<>>]

OkResp(rows) ==
  [code |-> 200, message |-> "", long_message |-> "", bound |-> 0, body |-> rows]

\* ------------------------------------------------------------------ handler locals
IdleLocal ==
  [pc |-> "idle", id |-> None, status |-> None, priority |-> None,
   clients |-> <<>>, lane |-> <<>>, i |-> 0, resp |-> NoResp]

\* res.status(..).send(..); the handler returns and its locals are dropped.
Respond(l, r) ==
  [l EXCEPT !.pc = "done", !.resp = r, !.clients = <<>>, !.lane = <<>>, !.i = 0]

\* const client = clients.find(c => c.id === id)
Client(l) ==
  LET hit == SelectSeq(l.clients, LAMBDA c : c.id = l.id[1])
  IN  IF Len(hit) = 0 THEN None ELSE Some(hit[1])

\* The old lane's rows with the target left in.
OldStatusClients_KeepTarget(l) ==
  LET client == Client(l)[1]
  IN  SelectSeq(l.clients, LAMBDA c : c.status = client.status)

\* clients.filter(c => c.status === client.status && c.id !== id)
OldStatusClients(l) ==
  LET client == Client(l)[1]
  IN  SelectSeq(l.clients, LAMBDA c : c.status = client.status /\ c.id # l.id[1])

\* clients.filter(c => c.status === status)
NewStatusClients(l) ==
  SelectSeq(l.clients, LAMBDA c : c.status = l.status[1])

\* The lane of the reorder taken from the snapshot alone.
CurrentStatus_Stale(l) == Client(l)[1].status

\* const currentStatus = status || client.status
CurrentStatus(l) ==
  IF TruthyStr(l.status) THEN l.status[1] ELSE Client(l)[1].status

\* The code after the status block, up to its next await: if (priority) ...
AfterStatusBlock(l) ==
  IF TruthyNum(l.priority) THEN [l EXCEPT !.pc = "readLane"]
  ELSE [l EXCEPT !.pc = "finalRead"]

\* validateId without the lookup of the row.
ValidateIdStep_NoLookup(l, d) ==
  IF l.id = None
  THEN [l |-> Respond(l, ErrResp(400, "Invalid id provided.",
                                 "Id can only be an integer.", 0)),
        d |-> d]
  ELSE [l |-> [l EXCEPT !.pc = "readAll"], d |-> d]

\* validateId (lines 32-55) and the check of its result (lines 109-112).
ValidateIdStep(l, d) ==
  IF l.id = None
  THEN [l |-> Respond(l, ErrResp(400, "Invalid id provided.",
                                 "Id can only be an integer.", 0)),
        d |-> d]
  ELSE IF GetById(d, l.id[1]) = None
  THEN [l |-> Respond(l, ErrResp(400, "Invalid id provided.",
                                 "Cannot find client with that id.", 0)),
        d |-> d]
  ELSE [l |-> [l EXCEPT !.pc = "readAll"], d |-> d]

\* The status block entered whenever a status is given, equal or not.
ReadAllStep_NoCompare(l, d) ==
  LET l1 == [l EXCEPT !.clients = d]
  IN  IF Client(l1) = None
      THEN [l |-> Respond(l1, ErrResp(404, "Client not found.", "", 0)), d |-> d]
      ELSE IF TruthyStr(l1.status)
      THEN [l |-> [l1 EXCEPT !.pc = "setStatus"], d |-> d]
      ELSE [l |-> AfterStatusBlock(l1), d |-> d]

\* Lines 116-123: the snapshot read, the lookup of the target, and the test
\* that opens the status block.
ReadAllStep(l, d) ==
  LET l1 == [l EXCEPT !.clients = d]
  IN  IF Client(l1) = None
      THEN [l |-> Respond(l1, ErrResp(404, "Client not found.", "", 0)), d |-> d]
      ELSE IF TruthyStr(l1.status) /\ Client(l1)[1].status # l1.status[1]
      THEN [l |-> [l1 EXCEPT !.pc = "setStatus"], d |-> d]
      ELSE [l |-> AfterStatusBlock(l1), d |-> d]

\* Line 124, then lines 127-128 up to the first await of the loop (or, with
\* an empty old lane, lines 133-135 up to the await of line 135).
SetStatusStep(l, d) ==
  [l |-> IF Len(OldStatusClients(l)) > 0
         THEN [l EXCEPT !.pc = "rerankOld", !.i = 0]
         ELSE [l EXCEPT !.pc = "appendNew", !.i = 0],
   d |-> UpdateStatus(d, l.status[1], l.id[1])]

\* The loop iteration that also saves every other row of the snapshot back.
RerankOldStep_WriteBack(l, d) ==
  LET oldStatusClients == OldStatusClients(l)
      d2 == UpdatePriority(d, l.i + 1, oldStatusClients[l.i + 1].id)
      kept == { l.id[1] } \cup { oldStatusClients[k].id : k \in DOMAIN oldStatusClients }
  IN  [l |-> IF l.i + 1 < Len(oldStatusClients)
             THEN [l EXCEPT !.i = l.i + 1]
             ELSE [l EXCEPT !.pc = "appendNew", !.i = 0],
       d |-> [k \in DOMAIN d2 |-> IF d2[k].id \in kept THEN d2[k] ELSE l.clients[k]]]

\* One iteration of the loop of lines 128-130.
RerankOldStep(l, d) ==
  LET oldStatusClients == OldStatusClients(l)
  IN  [l |-> IF l.i + 1 < Len(oldStatusClients)
             THEN [l EXCEPT !.i = l.i + 1]
             ELSE [l EXCEPT !.pc = "appendNew", !.i = 0],
       d |-> UpdatePriority(d, l.i + 1, oldStatusClients[l.i + 1].id)]

\* The target appended at the destination lane's size instead of size + 1.
AppendNewStep_NoPlusOne(l, d) ==
  [l |-> AfterStatusBlock(l),
   d |-> UpdatePriority(d, Len(NewStatusClients(l)), l.id[1])]

\* Lines 133-135, then the test of line 138.
AppendNewStep(l, d) ==
  [l |-> AfterStatusBlock(l),
   d |-> UpdatePriority(d, Len(NewStatusClients(l)) + 1, l.id[1])]

\* The range taken from the lane before the target is filtered out.
ReadLaneStep_BoundBeforeFilter(l, d, rows) ==
  LET swimlaneClients == SelectSeq(rows, LAMBDA c : c.id # l.id[1])
      p == l.priority[1]
  IN  IF p < 1 \/ p > Len(rows) + 1
      THEN [l |-> Respond(l, ErrResp(400, "Invalid priority.",
                                     "Priority must be between 1 and bound.",
                                     Len(rows) + 1)),
            d |-> d]
      ELSE [l |-> [l EXCEPT !.pc = "rerankLane", !.i = 0,
                            !.lane = Splice([k \in DOMAIN swimlaneClients |->
                                               swimlaneClients[k].id],
                                            p - 1, l.id[1])],
            d |-> d]

\* Lines 140-153; rows is the result of the query of line 140.
ReadLaneStep(l, d, rows) ==
  LET swimlaneClients == SelectSeq(rows, LAMBDA c : c.id # l.id[1])
      p == l.priority[1]
  IN  IF p < 1 \/ p > Len(swimlaneClients) + 1
      THEN [l |-> Respond(l, ErrResp(400, "Invalid priority.",
                                     "Priority must be between 1 and bound.",
                                     Len(swimlaneClients) + 1)),
            d |-> d]
      ELSE [l |-> [l EXCEPT !.pc = "rerankLane", !.i = 0,
                            !.lane = Splice([k \in DOMAIN swimlaneClients |->
                                               swimlaneClients[k].id],
                                            p - 1, l.id[1])],
            d |-> d]

\* The loop iteration that never advances its index.
RerankLaneStep_NoAdvance(l, d) ==
  [l |-> l,
   d |-> UpdatePriority(d, l.i + 1, l.lane[l.i + 1])]

\* One iteration of the loop of lines 154-156.
RerankLaneStep(l, d) ==
  [l |-> IF l.i + 1 < Len(l.lane)
         THEN [l EXCEPT !.i = l.i + 1]
         ELSE [l EXCEPT !.pc = "finalRead", !.i = 0],
   d |-> UpdatePriority(d, l.i + 1, l.lane[l.i + 1])]

\* Lines 159-160; rows is the result of the query of line 159.
FinalReadStep(l, d, rows) ==
  [l |-> Respond(l, OkResp(rows)), d |-> d]

\* ------------------------------------------------------------------ lanes
\* The rows of d whose status is s.
LaneRows(d, s) == SelectSeq(d, LAMBDA r : r.status = s)

\* The priorities of lane s are exactly 1..N, each carried by one row.
LaneOK(d, s) ==
  LET rows == LaneRows(d, s)
  IN  \A k \in 1..Len(rows) :
        Cardinality({ j \in 1..Len(rows) : rows[j].priority = k }) = 1

LanesOK(d) == \A k \in DOMAIN d : LaneOK(d, d[k].status)

\* ------------------------------------------------------------------ state
VARIABLES
  db,     \* the clients table: a sequence of rows [id, status, priority]
  loc,    \* loc[p]: the locals and position of invocation p
  base    \* the table when a request last arrived with no invocation open

vars == <<db, loc, base>>

\* Every table of n rows (ids 1..n, in storage order) over the three lanes
\* whose lanes are each ranked 1..N: row n placed at any rank of any lane
\* of such a table of n-1 rows.
RECURSIVE Stores(_)
Stores(n) ==
  IF n = 0 THEN {<<>>}
  ELSE UNION { UNION { {
         Append([k \in DOMAIN d |->
                   IF d[k].status = s /\ d[k].priority >= r
                   THEN [d[k] EXCEPT !.priority = d[k].priority + 1] ELSE d[k]],
                [id |-> n, status |-> s, priority |-> r]) :
           r \in 1..(Len(LaneRows(d, s)) + 1) } : s \in Lanes } : d \in Stores(n - 1) }

\* The request inputs: :id parsed by parseInt (NaN, an existing id, or an id
\* of no row), body.status and body.priority.
IdInputs(d) == {None} \cup { Some(k) : k \in 1..(Len(d) + 1) }
StatusInputs == {None} \cup { Some(s) : s \in Lanes \cup {BadStatus} }
PriorityInputs(d) == {None} \cup { Some(k) : k \in 0..(Len(d) + 2) }

InFlight(p) == loc[p].pc \notin {"idle", "done"}

\* Lines 107-109 and 114: the request arrives.
Receive(p) ==
  /\ loc[p].pc = "idle"
  /\ \E id \in IdInputs(db), st \in StatusInputs, pr \in PriorityInputs(db) :
       loc' = [loc EXCEPT ![p] = [IdleLocal EXCEPT !.pc = "validateId", !.id = id,
                                                   !.status = st, !.priority = pr]]
  /\ base' = IF \A q \in Procs : loc[q].pc = "idle" THEN db ELSE base
  /\ UNCHANGED db

Apply(p, r) ==
  /\ loc' = [loc EXCEPT ![p] = r.l]
  /\ db' = r.d
  /\ UNCHANGED base

ValidateId(p) == loc[p].pc = "validateId" /\ Apply(p, ValidateIdStep(loc[p], db))
ReadAll(p) == loc[p].pc = "readAll" /\ Apply(p, ReadAllStep(loc[p], db))
SetStatus(p) == loc[p].pc = "setStatus" /\ Apply(p, SetStatusStep(loc[p], db))
RerankOld(p) == loc[p].pc = "rerankOld" /\ Apply(p, RerankOldStep(loc[p], db))
AppendNew(p) == loc[p].pc = "appendNew" /\ Apply(p, AppendNewStep(loc[p], db))
ReadLane(p) ==
  /\ loc[p].pc = "readLane"
  /\ \E rows \in SelectByStatusOrdered(db, CurrentStatus(loc[p])) :
       Apply(p, ReadLaneStep(loc[p], db, rows))
RerankLane(p) == loc[p].pc = "rerankLane" /\ Apply(p, RerankLaneStep(loc[p], db))
FinalRead(p) ==
  /\ loc[p].pc = "finalRead"
  /\ \E rows \in SelectAllOrdered(db) : Apply(p, FinalReadStep(loc[p], db, rows))

\* The response has been sent; the invocation is over and the next request
\* will find the table as it is now.
Finish(p) ==
  /\ loc[p].pc = "done"
  /\ loc' = [loc EXCEPT ![p] = IdleLocal]
  /\ base' = db
  /\ UNCHANGED db

Init ==
  /\ db \in Stores(NumClients)
  /\ loc = [p \in Procs |-> IdleLocal]
  /\ base = db

\* One call at a time: a request is received only when no invocation is open.
Next ==
  \/ (\A q \in Procs : loc[q].pc = "idle") /\ Receive(1)
  \/ ValidateId(1)
  \/ ReadAll(1)
  \/ SetStatus(1)
  \/ RerankOld(1)
  \/ AppendNew(1)
  \/ ReadLane(1)
  \/ RerankLane(1)
  \/ FinalRead(1)
  \/ Finish(1)

Spec == Init /\ [][Next]_vars

\* ------------------------------------------------------------------ progress
\* A step of the open invocation: the database answers every query, so an
\* awaited call always completes and the handler resumes.
HandlerStep ==
  \/ ValidateId(1)
  \/ ReadAll(1)
  \/ SetStatus(1)
  \/ RerankOld(1)
  \/ AppendNew(1)
  \/ ReadLane(1)
  \/ RerankLane(1)
  \/ FinalRead(1)

\* One invocation, from the arrival of its request on.
NextLive == Receive(1) \/ HandlerStep

SpecLive == Init /\ [][NextLive]_vars /\ WF_vars(HandlerStep)

\* ------------------------------------------------------------------ concurrency
\* Invocations overlap: each await of one invocation lets the other run
\* (Node's event loop, one database connection, no transaction).  Each slot
\* serves one request.
InitConc ==
  /\ db \in Stores(ConcClients)
  /\ loc = [p \in Procs |-> IdleLocal]
  /\ base = db

NextConc ==
  \E p \in Procs :
    \/ Receive(p)
    \/ ValidateId(p)
    \/ ReadAll(p)
    \/ SetStatus(p)
    \/ RerankOld(p)
    \/ AppendNew(p)
    \/ ReadLane(p)
    \/ RerankLane(p)
    \/ FinalRead(p)

SpecConc == InitConc /\ [][NextConc]_vars

\* ------------------------------------------------------------------ disjoint lanes
\* The lanes a request (id, st) touches on table d: its target's lane and,
\* with a status given, that lane.
ReqLanes(d, id, st) ==
  IF id = None \/ GetById(d, id[1]) = None THEN {}
  ELSE {GetById(d, id[1])[1].status} \cup (IF TruthyStr(st) THEN {st[1]} ELSE {})

\* The lanes the open invocation q touches.
OpenLanes(q) == ReqLanes(base, loc[q].id, loc[q].status)

\* The requests of the disjoint-lanes specification: the id of a row, and a
\* priority absent, in range, or just above the largest range.
RowIdInputs(d) == { Some(d[k].id) : k \in DOMAIN d }
RankInputs(d) == {None} \cup { Some(k) : k \in 1..(Len(d) + 1) }

\* A request arrives that touches no lane an open invocation touches; the
\* slots are taken in order.
ReceiveDisjoint(p) ==
  /\ loc[p].pc = "idle"
  /\ \A q \in Procs : q < p => loc[q].pc # "idle"
  /\ \E id \in RowIdInputs(db), st \in StatusInputs, pr \in RankInputs(db) :
       /\ \A q \in Procs : loc[q].pc # "idle" => ReqLanes(db, id, st) \cap OpenLanes(q) = {}
       /\ loc' = [loc EXCEPT ![p] = [IdleLocal EXCEPT !.pc = "validateId", !.id = id,
                                                   !.status = st, !.priority = pr]]
  /\ base' = IF \A q \in Procs : loc[q].pc = "idle" THEN db ELSE base
  /\ UNCHANGED db

InitDisjoint ==
  /\ db \in Stores(DisjClients)
  /\ loc = [p \in Procs |-> IdleLocal]
  /\ base = db

\* Overlapping invocations whose callers keep them on disjoint lanes.
NextDisjoint ==
  \E p \in Procs :
    \/ ReceiveDisjoint(p)
    \/ ValidateId(p)
    \/ ReadAll(p)
    \/ SetStatus(p)
    \/ RerankOld(p)
    \/ AppendNew(p)
    \/ ReadLane(p)
    \/ RerankLane(p)
    \/ FinalRead(p)

SpecDisjoint == InitDisjoint /\ [][NextDisjoint]_vars

\* ------------------------------------------------------------------ GET /api/v1/clients
\* Lines 82-92: the query's status is checked before any await.
GetReceiveStep(l, st) ==
  IF TruthyStr(st) /\ st[1] \notin Lanes
  THEN [l EXCEPT !.pc = "getDone",
                 !.resp = ErrResp(400, "Invalid status provided.",
                                  "Status can only be one of the following: [backlog | in-progress | complete].",
                                  0)]
  ELSE [l EXCEPT !.pc = "getAll", !.status = st]

\* Lines 93-99: the awaited query (one lane, or the whole table, in storage
\* order) and the 200 response.
GetReadStep(l, d) ==
  [l EXCEPT !.pc = "getDone",
            !.resp = OkResp(IF TruthyStr(l.status) THEN LaneRows(d, l.status[1]) ELSE d)]

GetReceive(p) ==
  /\ loc[p].pc = "idle"
  /\ \E st \in StatusInputs : loc' = [loc EXCEPT ![p] = GetReceiveStep(loc[p], st)]
  /\ UNCHANGED <<db, base>>

GetRead(p) ==
  /\ loc[p].pc = "getAll"
  /\ loc' = [loc EXCEPT ![p] = GetReadStep(loc[p], db)]
  /\ UNCHANGED <<db, base>>

InitGet ==
  /\ db \in Stores(ConcClients)
  /\ loc = [p \in Procs |-> IdleLocal]
  /\ base = db

\* One PUT invocation (slot 1) and one GET invocation (slot 2), overlapping
\* at the PUT's awaits.
NextGet ==
  \/ Receive(1)
  \/ ValidateId(1)
  \/ ReadAll(1)
  \/ SetStatus(1)
  \/ RerankOld(1)
  \/ AppendNew(1)
  \/ ReadLane(1)
  \/ RerankLane(1)
  \/ FinalRead(1)
  \/ GetReceive(2)
  \/ GetRead(2)

SpecGet == InitGet /\ [][NextGet]_vars

\* ------------------------------------------------------------------ one whole call
\* The step an invocation at position l.pc takes on table d, with the ordered
\* queries answered by one of their possible results.
StepOf(l, d) ==
  CASE l.pc = "validateId" -> ValidateIdStep(l, d)
    [] l.pc = "readAll" -> ReadAllStep(l, d)
    [] l.pc = "setStatus" -> SetStatusStep(l, d)
    [] l.pc = "rerankOld" -> RerankOldStep(l, d)
    [] l.pc = "appendNew" -> AppendNewStep(l, d)
    [] l.pc = "readLane" ->
         ReadLaneStep(l, d, CHOOSE rows \in SelectByStatusOrdered(d, CurrentStatus(l)) : TRUE)
    [] l.pc = "rerankLane" -> RerankLaneStep(l, d)
    [] l.pc = "finalRead" ->
         FinalReadStep(l, d, CHOOSE rows \in SelectAllOrdered(d) : TRUE)

\* The invocation run from position l.pc to its response with no other
\* invocation in between.
RECURSIVE RunToEnd(_, _)
RunToEnd(l, d) ==
  IF l.pc = "done" THEN [l |-> l, d |-> d]
  ELSE LET r == StepOf(l, d) IN RunToEnd(r.l, r.d)

\* The table after the call (id, st, pr) has run alone on table d.
PutAlone(d, id, st, pr) ==
  RunToEnd([IdleLocal EXCEPT !.pc = "validateId", !.id = id,
                             !.status = st, !.priority = pr], d).d

\* The response to the call (id, st, pr) run alone on table d.
PutAloneResp(d, id, st, pr) ==
  RunToEnd([IdleLocal EXCEPT !.pc = "validateId", !.id = id,
                             !.status = st, !.priority = pr], d).l.resp

\* The tables that running the requests of the invocations in S one after
\* the other, in any order, from table d can end in.
RECURSIVE SerialOutcomes(_, _)
SerialOutcomes(d, S) ==
  IF S = {} THEN {d}
  ELSE UNION { SerialOutcomes(PutAlone(d, loc[p].id, loc[p].status, loc[p].priority),
                              S \ {p}) : p \in S }

\* ------------------------------------------------------------------ claims
\* What the claims speak of, for the invocation in slot 1.
Req == loc[1]
Resp == loc[1].resp
Done == loc[1].pc = "done"
\* The target's row before the call and now.
PreRow == GetById(base, Req.id[1])[1]
PostRow == GetById(db, Req.id[1])[1]
KnownId == Req.id # None /\ GetById(base, Req.id[1]) # None
LaneChange == KnownId /\ TruthyStr(Req.status) /\ Req.status[1] # PreRow.status
\* The ids of lane s of table d, in ascending priority.
LaneIdsByRank(d, s) ==
  LET rows == CHOOSE r \in SelectByStatusOrdered(d, s) : TRUE
  IN  [k \in DOMAIN rows |-> rows[k].id]
\* Sequence s without the element x.
Without(s, x) == SelectSeq(s, LAMBDA e : e # x)

\* C1: with calls handled one at a time from a table whose lanes are each
\* ranked 1..N, whenever no call is in progress every lane's priorities are
\* exactly 1..N, with no gap and no duplicate.
C1_LanesRanked == (\A p \in Procs : ~InFlight(p)) => LanesOK(db)

\* C1's case: a call has just succeeded and changed the table, and an
\* earlier call had already moved a row (to a lane no table starts with).
C1_Witness ==
  /\ Done /\ Resp.code = 200 /\ db # base
  /\ \E k \in DOMAIN base : base[k].status = BadStatus
  /\ LanesOK(db)

\* The lanes invocation p touches: its target's lane and its effective lane.
TouchedLanes(p) ==
  IF loc[p].id = None \/ GetById(base, loc[p].id[1]) = None THEN {}
  ELSE {GetById(base, loc[p].id[1])[1].status}
       \cup (IF TruthyStr(loc[p].status) THEN {loc[p].status[1]} ELSE {})

\* C2: once two overlapping invocations that touch a common lane have both
\* responded, the table is one that running the two calls one after the
\* other, in some order, produces, and every lane is ranked exactly 1..N.
C2_Serializable ==
  ( /\ \A p \in Procs : loc[p].pc = "done"
    /\ \E p, q \in Procs : p # q /\ TouchedLanes(p) \cap TouchedLanes(q) # {} )
  => (db \in SerialOutcomes(base, Procs) /\ LanesOK(db))

\* C3: a call that ends with an error response leaves the status and the
\* priority of every row as they were before the call.
C3_AllOrNothing == (Done /\ Resp.code # 200) => db = base

\* The priority of the row with this id in table d.
PriorityOf(d, id) == GetById(d, id)[1].priority
\* The ids of the rows that stay in the target's old lane.
Remaining == { base[k].id : k \in { j \in DOMAIN base :
                 base[j].status = PreRow.status /\ base[j].id # Req.id[1] } }
\* The staying rows are still in the old lane, ranked exactly 1..(oldSize-1).
OldLaneCompacted ==
  /\ \A x \in Remaining : GetById(db, x)[1].status = PreRow.status
  /\ \A k \in 1..Cardinality(Remaining) :
       Cardinality({ x \in Remaining : PriorityOf(db, x) = k }) = 1

\* C4: a lane change with no newPriority into a lane of K rows succeeds,
\* leaves the target with the new status and priority K+1, and leaves the
\* rows that stay in the old lane ranked exactly 1..(oldSize-1).
C4_LaneChangeAppends ==
  (Done /\ LaneChange /\ Req.priority = None) =>
    /\ Resp.code = 200
    /\ PostRow.status = Req.status[1]
    /\ PostRow.priority = Len(LaneRows(base, Req.status[1])) + 1
    /\ OldLaneCompacted

\* C4's case: the first of three rows of a lane has moved to a lane that
\* held a row already.
C4_Witness ==
  /\ Done /\ LaneChange /\ Req.priority = None
  /\ PreRow.priority = 1 /\ Cardinality(Remaining) = 2
  /\ Len(LaneRows(base, Req.status[1])) = 1
  /\ PostRow.priority = 2

\* C5: on a lane change the rows that stay in the old lane keep their
\* relative order: a before b by priority before the call means a before b
\* after it.
C5_OldLaneOrderKept ==
  (Done /\ LaneChange) =>
    \A a, b \in Remaining :
      PriorityOf(base, a) < PriorityOf(base, b) => PriorityOf(db, a) < PriorityOf(db, b)

\* C6: an in-lane reorder to a rank p of 1..N (N the lane's size) succeeds,
\* leaves the target in its lane at rank exactly p, keeps the other rows of
\* the lane in their order, and leaves the lane ranked 1..N.
C6_Reorder ==
  ( /\ Done /\ KnownId /\ ~LaneChange /\ Req.priority # None
    /\ Req.priority[1] >= 1
    /\ Req.priority[1] <= Len(LaneRows(base, PreRow.status)) ) =>
    /\ Resp.code = 200
    /\ PostRow.status = PreRow.status
    /\ PostRow.priority = Req.priority[1]
    /\ Without(LaneIdsByRank(db, PreRow.status), Req.id[1])
         = Without(LaneIdsByRank(base, PreRow.status), Req.id[1])
    /\ LaneOK(db, PreRow.status)

\* C6's case: the last row of a whole-table lane has moved to rank 2; the
\* row at rank 1 stays and the rows from rank 2 on move down by one.
C6_Witness ==
  /\ Done /\ KnownId /\ ~LaneChange /\ Req.priority = Some(2)
  /\ Len(LaneRows(base, PreRow.status)) = Len(base)
  /\ PreRow.priority = Len(base)
  /\ PostRow.priority = 2
  /\ \A k \in DOMAIN base :
       base[k].id # Req.id[1] =>
         db[k].priority = IF base[k].priority = 1 THEN 1 ELSE base[k].priority + 1

\* C7: a lane change with newPriority p of 1..K+1 (K the destination's
\* size) succeeds, puts the target in the destination at rank exactly p,
\* moves each destination row of rank >= p down by one and leaves the others,
\* and leaves the rows that stay in the old lane ranked 1..(oldSize-1).
C7_MoveAndReorder ==
  ( /\ Done /\ LaneChange /\ Req.priority # None
    /\ Req.priority[1] >= 1
    /\ Req.priority[1] <= Len(LaneRows(base, Req.status[1])) + 1 ) =>
    /\ Resp.code = 200
    /\ PostRow.status = Req.status[1]
    /\ PostRow.priority = Req.priority[1]
    /\ \A k \in DOMAIN base :
         base[k].status = Req.status[1] =>
           /\ db[k].status = Req.status[1]
           /\ db[k].priority = IF base[k].priority >= Req.priority[1]
                                THEN base[k].priority + 1 ELSE base[k].priority
    /\ OldLaneCompacted

\* C7's case: a row has moved into a lane of three rows at rank 1.
C7_Witness ==
  /\ Done /\ LaneChange /\ Req.priority = Some(1)
  /\ Len(LaneRows(base, Req.status[1])) = 3
  /\ PostRow.priority = 1
  /\ { db[k].priority : k \in { j \in DOMAIN base : base[j].status = Req.status[1] } }
       = {2, 3, 4}

\* C8: a reorder of a row within its lane of N rows with newPriority 0 or
\* N+2 ends with the invalid-priority error and writes nothing.
C8_RangeRejected ==
  ( /\ Done /\ KnownId /\ ~LaneChange /\ Req.priority # None
    /\ Req.priority[1] \in {0, Len(LaneRows(base, PreRow.status)) + 2} ) =>
    /\ Resp.code = 400
    /\ Resp.message = "Invalid priority."
    /\ db = base

\* C9: a call whose newStatus is none of the three lanes ends with an error
\* and writes nothing, and the status of every row is always one of the
\* three lanes.
C9_StatusRecognized ==
  /\ (Done /\ KnownId /\ Req.status # None /\ Req.status[1] \notin Lanes) =>
       (Resp.code # 200 /\ db = base)
  /\ \A k \in DOMAIN db : db[k].status \in Lanes

\* C10: a call whose id matches no row ends with the invalid-id error
\* response and leaves every row as it was.
C10_UnknownId ==
  (Done /\ ~KnownId) =>
    /\ Resp.code = 400
    /\ Resp.message = "Invalid id provided."
    /\ db = base

\* C10's case: a call asking for a lane and a rank for an id of no row has
\* been answered.
C10_Witness ==
  /\ Done /\ Req.id = Some(Len(base) + 1)
  /\ Req.status = Some("complete") /\ Req.priority = Some(1)
  /\ Resp.long_message = "Cannot find client with that id."

\* The rows of a sequence of rows, as a set.
RowSet(rows) == { rows[k] : k \in DOMAIN rows }

\* C11: a call with no newPriority and a newStatus absent or equal to the
\* target's status succeeds, writes nothing, and returns the table's rows.
C11_NoOp ==
  (Done /\ KnownId /\ ~LaneChange /\ Req.priority = None) =>
    /\ Resp.code = 200
    /\ db = base
    /\ Len(Resp.body) = Len(base)
    /\ RowSet(Resp.body) = RowSet(base)

\* C11's case: a call naming the status its target already has, in a lane of
\* three rows, has been answered.
C11_Witness ==
  /\ Done /\ KnownId /\ Req.priority = None
  /\ Req.status = Some(PreRow.status)
  /\ Len(LaneRows(base, PreRow.status)) = 3
  /\ Resp.code = 200

\* C12: once overlapping invocations that touch pairwise disjoint sets of
\* lanes have all responded, the table is the one that running the calls one
\* after the other produces, whatever the order, and every lane is ranked
\* exactly 1..N.
C12_DisjointLanesSafe ==
  ( /\ \A p \in Procs : loc[p].pc = "done"
    /\ \A p, q \in Procs : p # q => OpenLanes(p) \cap OpenLanes(q) = {} )
  => (SerialOutcomes(base, Procs) = {db} /\ LanesOK(db))

\* C12's case: two invocations on disjoint lanes have overlapped and both
\* succeeded.  The first moved a row out of a lane that keeps another row;
\* the second moved its own target, all of it while the first was open (the
\* first's response shows the move, and the first wrote again after the
\* second's response).
C12_Witness ==
  /\ \A p \in Procs : loc[p].pc = "done" /\ loc[p].resp.code = 200
  /\ LaneChange /\ Cardinality(Remaining) >= 1
  /\ OpenLanes(1) \cap OpenLanes(2) = {} /\ OpenLanes(2) # {}
  /\ GetById(Resp.body, loc[2].id[1]) # GetById(base, loc[2].id[1])
  /\ RowSet(loc[2].resp.body) # RowSet(db)

\* The effective lane of the call and its rows other than the target.
EffectiveLane == IF TruthyStr(Req.status) THEN Req.status[1] ELSE PreRow.status
EffectiveOthers ==
  { k \in DOMAIN base : base[k].status = EffectiveLane /\ base[k].id # Req.id[1] }

\* C13: a call rejected for its priority reports as upper bound the number
\* of rows of the effective lane other than the target, plus one, and the
\* same call with a priority p is accepted for every p of 1..bound and
\* rejected for its priority for every p above the bound.
C13_BoundReported ==
  (Done /\ Resp.message = "Invalid priority.") =>
    /\ Resp.code = 400
    /\ Resp.bound = Cardinality(EffectiveOthers) + 1
    /\ \A p \in 1..(Len(base) + 2) :
         LET r == PutAloneResp(base, Req.id, Req.status, Some(p))
         IN  IF p <= Resp.bound THEN r.code = 200
             ELSE r.code = 400 /\ r.message = "Invalid priority."

\* C13's case: an in-lane reorder in a lane of three rows was rejected with
\* the bound 3.
C13_Witness ==
  /\ Done /\ Resp.message = "Invalid priority." /\ ~LaneChange
  /\ Len(LaneRows(base, PreRow.status)) = 3
  /\ Req.priority = Some(4)
  /\ Resp.bound = 3

\* C14: at every point of a call the table has the rows it had when the
\* request arrived, with the same ids; only the target's status may differ;
\* and a row of a lane that is neither the target's old lane nor the
\* effective lane has its status and priority unchanged.
C14_Frame ==
  /\ Len(db) = Len(base)
  /\ \A k \in DOMAIN base :
       /\ db[k].id = base[k].id
       /\ (Req.id = None \/ base[k].id # Req.id[1]) => db[k].status = base[k].status
       /\ base[k].status \notin OpenLanes(1) => db[k] = base[k]

\* C14's case: a call has moved its target to another lane at a given rank,
\* re-ranking both lanes, while a row of a third lane was in the table.
C14_Witness ==
  /\ Done /\ LaneChange /\ Req.priority = Some(1) /\ Resp.code = 200
  /\ Cardinality(Remaining) >= 1
  /\ Len(LaneRows(base, Req.status[1])) >= 1
  /\ \E k \in DOMAIN base : base[k].status \notin OpenLanes(1)

\* C15: a GET answered after a PUT has arrived returns rows whose lanes are
\* each ranked exactly 1..N, and an unfiltered GET returns the table as it
\* was before the PUT or as the PUT leaves it.
C15_GetSeesNoIntermediate ==
  (loc[2].pc = "getDone" /\ loc[2].resp.code = 200 /\ loc[1].pc # "idle") =>
    /\ LanesOK(loc[2].resp.body)
    /\ loc[2].status = None =>
         loc[2].resp.body \in {base, PutAlone(base, Req.id, Req.status, Req.priority)}

\* C16: after a call has succeeded, the identical call issued next succeeds
\* too and leaves the status and priority of every row as the first call
\* left them.
C16_RepeatIsIdempotent ==
  (Done /\ Resp.code = 200) =>
    /\ PutAloneResp(db, Req.id, Req.status, Req.priority).code = 200
    /\ PutAlone(db, Req.id, Req.status, Req.priority) = db

\* C16's case: a call has moved its target into a lane of two rows at rank
\* 2, out of a lane that keeps another row.
C16_Witness ==
  /\ Done /\ Resp.code = 200 /\ LaneChange /\ Req.priority = Some(2)
  /\ Len(LaneRows(base, Req.status[1])) = 2
  /\ Cardinality(Remaining) = 1
  /\ PostRow.priority = 2

\* C17: an invocation that keeps taking steps ends with a response; it has a
\* response exactly when it has ended, and a response once sent is never
\* followed by another.
C17_RespondsOnce ==
  /\ (loc[1].pc # "idle") ~> (loc[1].pc = "done")
  /\ [](loc[1].pc = "done" <=> loc[1].resp # NoResp)
  /\ [][loc[1].resp # NoResp => loc'[1] = loc[1]]_vars

\* C17's case: a call that ran both loops twice or more (a lane change out of
\* a lane that keeps two rows, into a lane of two rows, at a given rank) has
\* been answered.
C17_Witness ==
  /\ Done /\ Resp.code = 200 /\ LaneChange /\ Req.priority = Some(1)
  /\ Cardinality(Remaining) = 2
  /\ Len(LaneRows(base, Req.status[1])) = 1

====
